---------------------------- MODULE Spec2Model ----------------------------
(***************************************************************************)
(* Model of utils/generate_appicon.py: main() reads Contents.json, renders *)
(* the SVG once per selected "mac" entry, records the filename in the      *)
(* entry and rewrites Contents.json.                                       *)
(*                                                                         *)
(* A Python str is a sequence of one-character strings.  A dict is a       *)
(* sequence of <<key, value>> pairs in insertion order with distinct keys. *)
(* A JSON document on disk is the same shape, but an object may repeat a   *)
(* key; json.loads collapses repeats, json.dumps emits a dict in order.    *)
(***************************************************************************)
EXTENDS Integers, Sequences, FiniteSets, TLC

\* ------------------------------------------------------------ bounds
\* largest number of entries of the "images" array
MaxImages == 2
\* number of consecutive runs of main() on the same directory
MaxRuns == 2

\* ------------------------------------------------------------ strings
Digits == <<"0", "1", "2", "3", "4", "5", "6", "7", "8", "9">>

DigitSet == {Digits[k] : k \in 1..10}

\* the value of one decimal digit character
DigitVal(c) == (CHOOSE k \in 1..10 : Digits[k] = c) - 1

\* Python None, the result of dict.get on an absent key
None == <<"None">>

\* the first index of character c in s, or 0
RECURSIVE IndexFrom(_, _, _)
IndexFrom(s, c, k) ==
    IF k > Len(s) THEN 0
    ELSE IF s[k] = c THEN k
    ELSE IndexFrom(s, c, k + 1)

\* str.split("x")[0]: the part of s before its first "x", all of s if none
SplitFirst(s) ==
    LET p == IndexFrom(s, "x", 1)
    IN IF p = 0 THEN s ELSE SubSeq(s, 1, p - 1)

\* str.replace("x", ""): s with every "x" removed
ReplaceX(s) == SelectSeq(s, LAMBDA c : c # "x")

\* the unsigned digit run of s
AllDigits(s) == Len(s) > 0 /\ \A k \in 1..Len(s) : s[k] \in DigitSet

RECURSIVE DigitsVal(_)
DigitsVal(s) ==
    IF Len(s) = 0 THEN 0
    ELSE 10 * DigitsVal(SubSeq(s, 1, Len(s) - 1)) + DigitVal(s[Len(s)])

HasSign(s) == Len(s) > 0 /\ s[1] \in {"+", "-"}

\* int(s) succeeds: an optional sign followed by one or more digits
\* (whitespace and underscores are outside the alphabet of the model)
IntOk(s) == AllDigits(IF HasSign(s) THEN Tail(s) ELSE s)

\* int(s) where IntOk(s)
IntVal(s) ==
    IF HasSign(s)
    THEN (IF s[1] = "-" THEN 0 - DigitsVal(Tail(s)) ELSE DigitsVal(Tail(s)))
    ELSE DigitsVal(s)

\* str(n) of an int, as an f-string formats it
RECURSIVE NatStr(_)
NatStr(n) ==
    IF n < 10 THEN <<Digits[n + 1]>>
    ELSE NatStr(n \div 10) \o <<Digits[(n % 10) + 1]>>

IntStr(n) == IF n < 0 THEN <<"-">> \o NatStr(0 - n) ELSE NatStr(n)

\* ------------------------------------------------------------ constants
OUTPUT_NAME ==
    <<"m", "e", "r", "c", "u", "r", "y", "-", "a", "p", "p", "i", "c", "o", "n">>

APPICON_DIR == <<"Mercury/Mercury/Assets.xcassets/AppIcon.appiconset">>

MAC == <<"m", "a", "c">>

PNG == <<".", "p", "n", "g">>

\* ------------------------------------------------------------ pure functions
\* parse_size could raise (int() of the first component fails)
ParseSizeOk(size_str) == IntOk(SplitFirst(size_str))

parse_size(size_str) == IntVal(SplitFirst(size_str))

ScaleFactorOk(scale_str) == IntOk(ReplaceX(scale_str))

scale_factor(scale_str) == IntVal(ReplaceX(scale_str))

\* variant: the "@{scale}x" part at every scale
build_filename_always_suffix(base_size, scale) ==
    OUTPUT_NAME \o <<"_">> \o IntStr(base_size) \o <<"x">> \o IntStr(base_size)
        \o <<"@">> \o IntStr(scale) \o <<"x">> \o PNG

\* variant: the scale left out of the name
build_filename_no_scale(base_size, scale) ==
    OUTPUT_NAME \o <<"_">> \o IntStr(base_size) \o <<"x">> \o IntStr(base_size)
        \o PNG

build_filename(base_size, scale) ==
    IF scale = 1
    THEN OUTPUT_NAME \o <<"_">> \o IntStr(base_size) \o <<"x">>
             \o IntStr(base_size) \o PNG
    ELSE OUTPUT_NAME \o <<"_">> \o IntStr(base_size) \o <<"x">>
             \o IntStr(base_size) \o <<"@">> \o IntStr(scale) \o <<"x">> \o PNG

\* APPICON_DIR / filename
JoinPath(dir, filename) == dir \o <<"/">> \o filename

\* ------------------------------------------------------------ dicts and JSON
HasKey(d, key) == \E k \in 1..Len(d) : d[k][1] = key

\* dict.get(key, default)
Get(d, key, default) ==
    IF HasKey(d, key)
    THEN d[CHOOSE k \in 1..Len(d) : d[k][1] = key][2]
    ELSE default

\* variant: a list of pairs, where an assignment always appends
SetKey_appends(d, key, value) == Append(d, <<key, value>>)

\* d[key] = value: an existing key keeps its place, a new key goes last
SetKey(d, key, value) ==
    IF HasKey(d, key)
    THEN [k \in 1..Len(d) |-> IF d[k][1] = key THEN <<key, value>> ELSE d[k]]
    ELSE Append(d, <<key, value>>)

\* json.loads of one object: pairs are inserted left to right into a dict
RECURSIVE LoadObject(_)
LoadObject(pairs) ==
    IF Len(pairs) = 0 THEN <<>>
    ELSE SetKey(LoadObject(SubSeq(pairs, 1, Len(pairs) - 1)),
                pairs[Len(pairs)][1], pairs[Len(pairs)][2])

\* json.loads of the whole document: the top-level object and each element
\* of its "images" array become dicts
Loads(doc) ==
    LET top == LoadObject(doc)
    IN [k \in 1..Len(top) |->
          IF top[k][1] = "images"
          THEN <<"images",
                 [j \in 1..Len(top[k][2]) |-> LoadObject(top[k][2][j])]>>
          ELSE top[k]]

\* json.dumps of the loaded structure: every dict is written as its pairs,
\* in insertion order
Dumps(data) ==
    [k \in 1..Len(data) |->
        IF data[k][1] = "images"
        THEN <<"images", [j \in 1..Len(data[k][2]) |-> data[k][2][j]]>>
        ELSE data[k]]

\* ------------------------------------------------------------ manifests
s16x16 == <<"1", "6", "x", "1", "6">>
s32x32 == <<"3", "2", "x", "3", "2">>
sc1x == <<"1", "x">>
sc2x == <<"2", "x">>
IPHONE == <<"i", "p", "h", "o", "n", "e">>
STALE == <<"o", "l", "d", ".", "p", "n", "g">>

\* an entry as Xcode writes it: idiom, scale, size
Entry(idiom, scale, size) ==
    << <<"idiom", idiom>>, <<"scale", scale>>, <<"size", size>> >>

\* entries that pass the filter and follow the documented formats
PlainEntries ==
    {Entry(MAC, sc, sz) : sc \in {sc1x, sc2x}, sz \in {s16x16, s32x32}}
    \cup { << <<"filename", STALE>> >> \o Entry(MAC, sc2x, s16x16),
           << <<"idiom", MAC>>, <<"filename", STALE>>, <<"role", <<"a">> >>,
              <<"scale", sc1x>>, <<"size", s32x32>> >>,
           \* a repeated key in the file: json.loads keeps the last value
           Entry(IPHONE, sc1x, s16x16) \o << <<"idiom", MAC>> >> }

\* entries the filter of main() skips
SkippedEntries ==
    { << <<"filename", STALE>> >> \o Entry(IPHONE, sc2x, s16x16),
      << <<"scale", sc2x>>, <<"size", s16x16>> >>,
      << <<"idiom", MAC>>, <<"scale", sc1x>> >>,
      << <<"idiom", MAC>>, <<"scale", sc1x>>, <<"size", <<>> >> >>,
      << <<"idiom", MAC>>, <<"size", s32x32>> >>,
      << <<"idiom", MAC>>, <<"scale", <<>> >>, <<"size", s32x32>> >> }

\* entries that pass the filter with a size or scale of another shape
OddEntries ==
    {Entry(MAC, sc1x, sz) :
        sz \in { <<"1", "6">>, <<"1", "6", "x", "a", "b", "c">>,
                 <<"a", "x", "1", "6">>, <<"1", "6", "x", "3", "2">>,
                 <<"-", "1", "6", "x", "1", "6">> }}
    \cup
    {Entry(MAC, sc, s16x16) :
        sc \in { <<"2">>, <<"x", "2">>, <<"1", "x", "2">>, <<"a">>,
                 <<"x", "x">>, <<"0", "x">>, <<"+", "2", "x">> }}

Entries == PlainEntries \cup SkippedEntries \cup OddEntries

RECURSIVE SeqsUpTo(_, _)
SeqsUpTo(S, n) ==
    IF n = 0 THEN {<<>>}
    ELSE LET shorter == SeqsUpTo(S, n - 1)
         IN shorter \cup {Append(s, e) : s \in shorter, e \in S}

INFO == <<"info", <<"1">> >>
PROPERTIES == <<"properties", <<"a">> >>

\* the contents of Contents.json before the first run
Manifests ==
    { << <<"images", imgs>> >> : imgs \in SeqsUpTo(Entries, MaxImages) }
    \cup
    { <<INFO, <<"images", imgs>>, PROPERTIES>> :
          imgs \in SeqsUpTo(Entries, MaxImages) }
    \cup { <<INFO>> }

\* ------------------------------------------------------------ state
VARIABLES
    pc,             \* position of main(): check_svg, check_manifest, mkdir,
                    \* load, loop, done, failed
    svgExists,      \* SVG_PATH.exists()
    manifestExists, \* CONTENTS_JSON.exists()
    dirExists,      \* APPICON_DIR exists
    disk,           \* the JSON document in CONTENTS_JSON (<<>> if no file)
    files,          \* raster files on disk: a set of <<path, pixel size>>
    data,           \* the dict `data` of main()
    i,              \* index into `images` of the entry the loop is at
    calls,          \* the cairosvg.svg2png calls of this run, in order
    ops,            \* the file-system operations of this run, in order
    printed,        \* the completion message was printed in this run
    exit,           \* "none" while running, then the exit status "0" or "1"
    failure,        \* what aborted this run
    loaded,         \* history: `data` as json.loads returned it in this run
    startDisk,      \* history: disk, manifest and files when this run began
    run,            \* history: which run of main() this is
    prevCalls       \* history: the calls of the previous run

vars == <<pc, svgExists, manifestExists, dirExists, disk, files, data, i,
          calls, ops, printed, exit, failure, loaded, startDisk, run,
          prevCalls>>

env == <<svgExists, run, prevCalls, startDisk>>

Snapshot(m, dir, d, f) == [exists |-> m, dir |-> dir, doc |-> d, files |-> f]

\* CONTENTS_JSON lies in APPICON_DIR: a manifest that exists has its directory
Init ==
    /\ pc = "check_svg"
    /\ svgExists \in BOOLEAN
    /\ manifestExists \in BOOLEAN
    /\ dirExists \in BOOLEAN
    /\ manifestExists => dirExists
    /\ disk \in (IF manifestExists THEN Manifests ELSE {<<>>})
    /\ files = {}
    /\ data = <<>>
    /\ i = 0
    /\ calls = <<>>
    /\ ops = <<>>
    /\ printed = FALSE
    /\ exit = "none"
    /\ failure = "none"
    /\ loaded = <<>>
    /\ startDisk = Snapshot(manifestExists, dirExists, disk, files)
    /\ run = 1
    /\ prevCalls = <<>>

\* raise SystemExit(message) or an uncaught exception: status 1
Abort(why) ==
    /\ pc' = "failed"
    /\ exit' = "1"
    /\ failure' = why

\* ------------------------------------------------------------ main()
\* variant: the two existence tests in the other order
CheckSvg_after_manifest ==
    /\ pc = "check_svg"
    /\ ops' = ops \o <<"exists_manifest", "exists_svg">>
    /\ IF ~manifestExists
       THEN Abort("manifest_missing")
       ELSE IF svgExists
            THEN pc' = "mkdir" /\ UNCHANGED <<exit, failure>>
            ELSE Abort("svg_missing")
    /\ UNCHANGED <<env, manifestExists, dirExists, disk, files, data, i,
                   calls, printed, loaded>>

\* if not SVG_PATH.exists(): raise SystemExit
CheckSvg ==
    /\ pc = "check_svg"
    /\ ops' = Append(ops, "exists_svg")
    /\ IF svgExists
       THEN pc' = "check_manifest" /\ UNCHANGED <<exit, failure>>
       ELSE Abort("svg_missing")
    /\ UNCHANGED <<env, manifestExists, dirExists, disk, files, data, i,
                   calls, printed, loaded>>

\* variant: the directory is created before the manifest is tested
CheckManifest_after_mkdir ==
    /\ pc = "check_manifest"
    /\ ops' = ops \o <<"mkdir", "exists_manifest">>
    /\ dirExists' = TRUE
    /\ IF manifestExists
       THEN pc' = "load" /\ UNCHANGED <<exit, failure>>
       ELSE Abort("manifest_missing")
    /\ UNCHANGED <<env, manifestExists, disk, files, data, i, calls,
                   printed, loaded>>

\* if not CONTENTS_JSON.exists(): raise SystemExit
CheckManifest ==
    /\ pc = "check_manifest"
    /\ ops' = Append(ops, "exists_manifest")
    /\ IF manifestExists
       THEN pc' = "mkdir" /\ UNCHANGED <<exit, failure>>
       ELSE Abort("manifest_missing")
    /\ UNCHANGED <<env, manifestExists, dirExists, disk, files, data, i,
                   calls, printed, loaded>>

\* APPICON_DIR.mkdir(parents=True, exist_ok=True)
MkDir ==
    /\ pc = "mkdir"
    /\ ops' = Append(ops, "mkdir")
    /\ dirExists' = TRUE
    /\ pc' = "load"
    /\ UNCHANGED <<env, manifestExists, disk, files, data, i, calls,
                   printed, exit, failure, loaded>>

\* data = json.loads(CONTENTS_JSON.read_text()); images = data.get("images", [])
Load ==
    /\ pc = "load"
    /\ ops' = Append(ops, "read_manifest")
    /\ data' = Loads(disk)
    /\ loaded' = Loads(disk)
    /\ i' = 1
    /\ pc' = "loop"
    /\ UNCHANGED <<env, manifestExists, dirExists, disk, files, calls,
                   printed, exit, failure>>

\* `images`: the list inside data, or the fresh [] of the default
Images(d) == Get(d, "images", <<>>)

\* `not v` for a value that is None or a str
Falsy(v) == v = None \/ v = <<>>

\* variant: the filter without its idiom test
Skipped_no_idiom_test(image) ==
    \/ Falsy(Get(image, "size", None))
    \/ Falsy(Get(image, "scale", None))

\* if idiom != "mac" or not size_str or not scale_str: continue
Skipped(image) ==
    \/ Get(image, "idiom", None) # MAC
    \/ Falsy(Get(image, "size", None))
    \/ Falsy(Get(image, "scale", None))

\* the entry the loop is at
Current == Images(data)[i]

InLoop == pc = "loop" /\ i <= Len(Images(data))

\* the loop body up to `continue`
LoopSkip ==
    /\ InLoop
    /\ Skipped(Current)
    /\ i' = i + 1
    /\ UNCHANGED <<env, pc, manifestExists, dirExists, disk, files, data,
                   calls, ops, printed, exit, failure, loaded>>

\* int() raises ValueError in parse_size or scale_factor
LoopParseFail ==
    /\ InLoop
    /\ ~Skipped(Current)
    /\ \/ ~ParseSizeOk(Get(Current, "size", None))
       \/ ~ScaleFactorOk(Get(Current, "scale", None))
    /\ Abort("parse")
    /\ UNCHANGED <<env, manifestExists, dirExists, disk, files, data, i,
                   calls, ops, printed, loaded>>

\* the locals of the loop body for an entry that parses
BaseSize(image) == parse_size(Get(image, "size", None))

Scale(image) == scale_factor(Get(image, "scale", None))

\* variant: the sum in place of the product
PxSize_added(image) == BaseSize(image) + Scale(image)

\* px_size = base_size * scale
PxSize(image) == BaseSize(image) * Scale(image)

\* filename = build_filename(base_size, scale)
Filename(image) == build_filename(BaseSize(image), Scale(image))

\* the arguments of cairosvg.svg2png for the entry at index k
RenderCall(k, image) ==
    [idx           |-> k,
     write_to      |-> JoinPath(APPICON_DIR, Filename(image)),
     output_width  |-> PxSize(image),
     output_height |-> PxSize(image)]

\* the renderer creates or overwrites the file at path
WriteFile(fs, path, px) == {f \in fs : f[1] # path} \cup {<<path, px>>}

Parses(image) ==
    /\ ParseSizeOk(Get(image, "size", None))
    /\ ScaleFactorOk(Get(image, "scale", None))

\* `images[k] = image` seen through data
SetImage(d, k, image) ==
    SetKey(d, "images", [Images(d) EXCEPT ![k] = image])

\* variant: the manifest is saved after every rendered entry
LoopRender_saves_each ==
    /\ InLoop
    /\ ~Skipped(Current)
    /\ Parses(Current)
    /\ calls' = Append(calls, RenderCall(i, Current))
    /\ ops' = ops \o <<"render", "write_manifest">>
    /\ files' = WriteFile(files, JoinPath(APPICON_DIR, Filename(Current)),
                          PxSize(Current))
    /\ data' = SetImage(data, i, SetKey(Current, "filename", Filename(Current)))
    /\ disk' = Dumps(data')
    /\ i' = i + 1
    /\ UNCHANGED <<env, pc, manifestExists, dirExists, printed, exit, failure,
                   loaded>>

\* the loop body from parse_size to image["filename"] = filename, the
\* renderer succeeding
LoopRender ==
    /\ InLoop
    /\ ~Skipped(Current)
    /\ Parses(Current)
    /\ calls' = Append(calls, RenderCall(i, Current))
    /\ ops' = Append(ops, "render")
    /\ files' = WriteFile(files, JoinPath(APPICON_DIR, Filename(Current)),
                          PxSize(Current))
    /\ data' = SetImage(data, i, SetKey(Current, "filename", Filename(Current)))
    /\ i' = i + 1
    /\ UNCHANGED <<env, pc, manifestExists, dirExists, disk, printed, exit,
                   failure, loaded>>

\* cairosvg.svg2png raises: nothing is written, the exception propagates
LoopRenderFail ==
    /\ InLoop
    /\ ~Skipped(Current)
    /\ Parses(Current)
    /\ ops' = Append(ops, "render_failed")
    /\ Abort("render")
    /\ UNCHANGED <<env, manifestExists, dirExists, disk, files, data, i,
                   calls, printed, loaded>>

\* variant: only the images array is written back
Finish_drops_siblings ==
    /\ pc = "loop"
    /\ i > Len(Images(data))
    /\ disk' = << <<"images", Images(data)>> >>
    /\ ops' = Append(ops, "write_manifest")
    /\ printed' = TRUE
    /\ pc' = "done"
    /\ exit' = "0"
    /\ UNCHANGED <<env, manifestExists, dirExists, files, data, i, calls,
                   failure, loaded>>

\* CONTENTS_JSON.write_text(json.dumps(data, ...)); print(...)
Finish ==
    /\ pc = "loop"
    /\ i > Len(Images(data))
    /\ disk' = Dumps(data)
    /\ ops' = Append(ops, "write_manifest")
    /\ printed' = TRUE
    /\ pc' = "done"
    /\ exit' = "0"
    /\ UNCHANGED <<env, manifestExists, dirExists, files, data, i, calls,
                   failure, loaded>>

\* the script is started again on the directory a completed run left
Rerun ==
    /\ pc = "done"
    /\ run < MaxRuns
    /\ run' = run + 1
    /\ prevCalls' = calls
    /\ startDisk' = Snapshot(manifestExists, dirExists, disk, files)
    /\ pc' = "check_svg"
    /\ data' = <<>>
    /\ loaded' = <<>>
    /\ i' = 0
    /\ calls' = <<>>
    /\ ops' = <<>>
    /\ printed' = FALSE
    /\ exit' = "none"
    /\ failure' = "none"
    /\ UNCHANGED <<svgExists, manifestExists, dirExists, disk, files>>

Next ==
    \/ CheckSvg
    \/ CheckManifest
    \/ MkDir
    \/ Load
    \/ LoopSkip
    \/ LoopParseFail
    \/ LoopRender
    \/ LoopRenderFail
    \/ Finish
    \/ Rerun

Spec == Init /\ [][Next]_vars

TypeOK ==
    /\ pc \in {"check_svg", "check_manifest", "mkdir", "load", "loop",
               "done", "failed"}
    /\ exit \in {"none", "0", "1"}
    /\ run \in 1..MaxRuns

\* ------------------------------------------------------------ properties
\* the entries json.loads returned in this run
Orig == Images(loaded)

\* the indexes into calls of the render calls made for entry k
CallsFor(k) == {c \in 1..Len(calls) : calls[c].idx = k}

Field(e, key) == IF \E p \in 1..Len(e) : e[p][1] = key
                 THEN e[CHOOSE p \in 1..Len(e) : e[p][1] = key][2]
                 ELSE None

\* the entry fails the documented selection filter
FailsFilter(e) ==
    \/ Field(e, "idiom") # <<"m", "a", "c">>
    \/ Field(e, "size") \in {None, <<>>}
    \/ Field(e, "scale") \in {None, <<>>}

Without(e, key) == SelectSeq(e, LAMBDA p : p[1] # key)

\* s is "<int>x": digits followed by one "x"
IsScaleForm(s) ==
    /\ Len(s) >= 2
    /\ s[Len(s)] = "x"
    /\ AllDigits(SubSeq(s, 1, Len(s) - 1))

\* s is "<int>x<int>"
IsSizeForm(s) ==
    \E p \in 1..Len(s) :
        /\ s[p] = "x"
        /\ AllDigits(SubSeq(s, 1, p - 1))
        /\ AllDigits(SubSeq(s, p + 1, Len(s)))

\* s is "SxS"
IsSquareForm(s) ==
    \E p \in 1..Len(s) :
        /\ s[p] = "x"
        /\ AllDigits(SubSeq(s, 1, p - 1))
        /\ SubSeq(s, p + 1, Len(s)) = SubSeq(s, 1, p - 1)

\* the S of "SxS" and the N of "Nx"
SquareOf(s) == DigitsVal(SubSeq(s, 1, (Len(s) - 1) \div 2))

FactorOf(s) == DigitsVal(SubSeq(s, 1, Len(s) - 1))

\* the entry passes the filter with a size "SxS" and a scale "Nx"
WellFormed(e) ==
    /\ ~FailsFilter(e)
    /\ IsSquareForm(Field(e, "size"))
    /\ IsScaleForm(Field(e, "scale"))

\* C1: an entry that fails the selection filter (idiom not "mac", size or
\* scale missing or empty) triggers no render call and keeps every field it
\* had when the manifest was loaded, in memory and in the rewritten file.
C1_SkippedEntryUntouched ==
    \A k \in 1..Len(Orig) :
        FailsFilter(Orig[k]) =>
            /\ CallsFor(k) = {}
            /\ Images(data)[k] = Orig[k]
            /\ pc = "done" => Images(disk)[k] = Orig[k]

\* a completed run that rendered an entry and passed over an "iphone" entry
\* that carries a filename
C1_Witness ==
    /\ pc = "done"
    /\ Len(calls) > 0
    /\ \E k \in 1..Len(Orig) :
          /\ Field(Orig[k], "idiom") = IPHONE
          /\ Field(Orig[k], "filename") = STALE

\* C2: in a completed run every "mac" entry with size "SxS" and scale "Nx"
\* has exactly one render call, of width and height S*N, written to
\* APPICON_DIR joined with build_filename(S, N), and the entry's filename is
\* build_filename(S, N) in memory and in the rewritten file.
C2_SelectedEntryRendered ==
    pc = "done" =>
        \A k \in 1..Len(Orig) :
            WellFormed(Orig[k]) =>
                LET S == SquareOf(Field(Orig[k], "size"))
                    N == FactorOf(Field(Orig[k], "scale"))
                IN /\ Cardinality(CallsFor(k)) = 1
                   /\ \A c \in CallsFor(k) :
                         /\ calls[c].output_width = S * N
                         /\ calls[c].output_height = S * N
                         /\ calls[c].write_to
                              = APPICON_DIR \o <<"/">> \o build_filename(S, N)
                   /\ Field(Images(data)[k], "filename") = build_filename(S, N)
                   /\ Field(Images(disk)[k], "filename") = build_filename(S, N)

\* a completed run rendered 16x16 at 2x as 32 by 32 pixels
C2_Witness ==
    /\ pc = "done"
    /\ \E k \in 1..Len(Orig) :
          /\ WellFormed(Orig[k])
          /\ Field(Orig[k], "size") = s16x16
          /\ Field(Orig[k], "scale") = sc2x
          /\ \E c \in CallsFor(k) : calls[c].output_width = 32

\* the file name the naming rule prescribes for base b at scale s
Prescribed(b, s) ==
    OUTPUT_NAME \o <<"_">> \o IntStr(b) \o <<"x">> \o IntStr(b)
        \o (IF s # 1 THEN <<"@">> \o IntStr(s) \o <<"x">> ELSE <<>>)
        \o PNG

Contains(s, c) == \E p \in 1..Len(s) : s[p] = c

\* C3: the name build_filename gives a rendered entry is
\* "<OUTPUT_NAME>_{size}x{size}.png" at scale 1 and
\* "<OUTPUT_NAME>_{size}x{size}@{scale}x.png" at any other scale: the "@"
\* part is present exactly when the scale is not 1.
C3_BuildFilenameShape ==
    \A k \in 1..Len(Orig) :
        CallsFor(k) # {} =>
            LET name == Field(Images(data)[k], "filename")
            IN /\ name = Prescribed(BaseSize(Orig[k]), Scale(Orig[k]))
               /\ Contains(name, "@") <=> Scale(Orig[k]) # 1
               /\ \A c \in CallsFor(k) :
                     calls[c].write_to = APPICON_DIR \o <<"/">> \o name

\* one run named an entry at scale 1 and another at scale 2
C3_Witness ==
    /\ Len(calls) = 2
    /\ \E j, k \in 1..Len(Orig) :
          /\ CallsFor(j) # {} /\ Scale(Orig[j]) = 1
          /\ CallsFor(k) # {} /\ Scale(Orig[k]) = 2
          /\ Field(Images(data)[j], "filename")
               = OUTPUT_NAME \o <<"_", "1", "6", "x", "1", "6">> \o PNG
          /\ Field(Images(data)[k], "filename")
               = OUTPUT_NAME \o <<"_", "1", "6", "x", "1", "6", "@", "2", "x">>
                   \o PNG

\* C4: a selected entry whose size is not "<int>x<int>" or whose scale is
\* not "<int>x" makes the run fail: no render call for the entry, no filename
\* assigned to it, and the run does not reach the rewrite of the manifest.
C4_MalformedFieldAborts ==
    \A k \in 1..Len(Orig) :
        (/\ ~FailsFilter(Orig[k])
         /\ \/ ~IsSizeForm(Field(Orig[k], "size"))
            \/ ~IsScaleForm(Field(Orig[k], "scale")))
        => /\ CallsFor(k) = {}
           /\ Images(data)[k] = Orig[k]
           /\ pc # "done"

\* C5: with the vector source missing the run aborts with status 1 after the
\* one existence test of the SVG: the manifest is neither tested nor read, no
\* directory is created, nothing is rendered and no file is written.
C5_MissingSvgAborts ==
    ~svgExists =>
        /\ pc \in {"check_svg", "failed"}
        /\ pc = "failed" =>
              /\ exit = "1"
              /\ failure = "svg_missing"
              /\ ops = <<"exists_svg">>
        /\ dirExists = startDisk.dir
        /\ calls = <<>>
        /\ files = startDisk.files
        /\ disk = startDisk.doc
        /\ manifestExists = startDisk.exists
        /\ ~printed

\* the run aborted on the missing SVG where neither manifest nor directory
\* exists
C5_Witness ==
    /\ pc = "failed"
    /\ ~svgExists
    /\ ~manifestExists
    /\ ~dirExists

\* C6: with the SVG present and the manifest missing the run aborts with
\* status 1 on the missing manifest: the output directory is not created,
\* nothing is rendered, no raster file is written and no manifest appears.
C6_MissingManifestAborts ==
    (svgExists /\ ~startDisk.exists) =>
        /\ pc \in {"check_svg", "check_manifest", "failed"}
        /\ pc = "failed" => exit = "1" /\ failure = "manifest_missing"
        /\ dirExists = startDisk.dir
        /\ \A o \in 1..Len(ops) : ops[o] \in {"exists_svg", "exists_manifest"}
        /\ calls = <<>>
        /\ files = startDisk.files
        /\ ~manifestExists
        /\ disk = <<>>
        /\ ~printed

\* the run aborted on the missing manifest where the directory is missing too
C6_Witness ==
    /\ pc = "failed"
    /\ svgExists
    /\ ~startDisk.exists
    /\ ~startDisk.dir
    /\ ops = <<"exists_svg", "exists_manifest">>

ManifestWrites == {o \in 1..Len(ops) : ops[o] = "write_manifest"}

\* C7: the manifest is written at most once per run, as the last file
\* operation and after every selected entry was rendered; in a run aborted
\* by a malformed field or by the renderer the manifest on disk is the
\* original, the raster files of the earlier entries are in place, no
\* completion message is printed and the status is 1.
C7_ManifestWrittenOnceAtEnd ==
    /\ Cardinality(ManifestWrites) <= 1
    /\ \A o \in ManifestWrites :
          /\ o = Len(ops)
          /\ \A k \in 1..Len(Orig) :
                ~FailsFilter(Orig[k]) => Cardinality(CallsFor(k)) = 1
    /\ pc # "done" => disk = startDisk.doc /\ ~printed
    /\ pc = "done" => ManifestWrites # {} /\ printed /\ exit = "0"
    /\ (pc = "failed" /\ failure \in {"parse", "render"}) =>
          /\ exit = "1"
          /\ \A c \in 1..Len(calls) :
                <<calls[c].write_to, calls[c].output_width>> \in files
          /\ \A f \in startDisk.files : \E g \in files : g[1] = f[1]

\* the run aborted at its second selected entry, the first one rendered
C7_Witness ==
    /\ pc = "failed"
    /\ failure \in {"parse", "render"}
    /\ Len(calls) = 1
    /\ i = 2
    /\ files # {}

\* C8 as stated, for entries of the documented formats: two different
\* selected entries rendered in one run never get the same file name, so no
\* render call overwrites a file written earlier in the run.
C8_FilenamesUnique ==
    \A a, b \in 1..Len(calls) :
        (/\ a # b
         /\ WellFormed(Orig[calls[a].idx])
         /\ WellFormed(Orig[calls[b].idx]))
        => calls[a].write_to # calls[b].write_to

\* the raster files a sequence of calls leaves, whatever its order
FilesOf(before, cs) ==
    {f \in before : \A c \in 1..Len(cs) : cs[c].write_to # f[1]}
    \cup {<<cs[c].write_to, cs[c].output_width>> : c \in 1..Len(cs)}

\* C8 amended: two entries rendered in one run get the same file name
\* exactly when their base size and scale are equal; then both renders have
\* the same pixel size, so the raster files on disk are a function of the
\* set of calls made, not of their order.
C8_FilenamesUniquePerSizeAndScale ==
    /\ \A a, b \in 1..Len(calls) :
          LET ea == Orig[calls[a].idx]
              eb == Orig[calls[b].idx]
          IN /\ calls[a].write_to = calls[b].write_to
                  <=> (BaseSize(ea) = BaseSize(eb) /\ Scale(ea) = Scale(eb))
             /\ calls[a].write_to = calls[b].write_to
                  => calls[a].output_width = calls[b].output_width
    /\ files = FilesOf(startDisk.files, calls)

\* one run rendered two entries of the documented formats, equal in size and
\* scale, into the same file
C8_Witness ==
    /\ Len(calls) = 2
    /\ WellFormed(Orig[1])
    /\ WellFormed(Orig[2])
    /\ calls[1].write_to = calls[2].write_to
    /\ Cardinality(files) = 1

\* C9: after a completed run the rewritten manifest has the top-level keys
\* of the loaded one in the same order with every sibling value unchanged,
\* the same number of images in the same order, and every entry equal to the
\* loaded entry in all fields but filename, which only selected entries gain
\* or change.
C9_RewriteChangesOnlyFilename ==
    pc = "done" =>
        /\ Len(disk) = Len(loaded)
        /\ \A k \in 1..Len(loaded) :
              /\ disk[k][1] = loaded[k][1]
              /\ disk[k][1] # "images" => disk[k] = loaded[k]
        /\ Len(Images(disk)) = Len(Orig)
        /\ \A k \in 1..Len(Orig) :
              /\ Without(Images(disk)[k], "filename")
                   = Without(Orig[k], "filename")
              /\ FailsFilter(Orig[k]) => Images(disk)[k] = Orig[k]
              /\ Field(Orig[k], "filename") # None =>
                    \A p \in 1..Len(Orig[k]) :
                        Images(disk)[k][p][1] = Orig[k][p][1]

\* a completed run rewrote a manifest with sibling metadata, an entry with an
\* unrecognised field whose stale filename it replaced, and a skipped entry
C9_Witness ==
    /\ pc = "done"
    /\ Len(loaded) = 3
    /\ Len(Orig) = 2
    /\ \E j, k \in 1..Len(Orig) :
          /\ Field(Orig[j], "role") # None
          /\ Field(Orig[j], "filename") = STALE
          /\ Field(Images(disk)[j], "filename") # STALE
          /\ FailsFilter(Orig[k])

\* C10: a second run on the manifest a completed run produced makes the same
\* render calls in the same order and rewrites a manifest equal to the one it
\* read.
C10_SecondRunIdempotent ==
    (run >= 2 /\ pc = "done") =>
        /\ calls = prevCalls
        /\ disk = startDisk.doc
        /\ files = startDisk.files

\* a second run completed after a first run that rendered two entries
C10_Witness ==
    /\ run = 2
    /\ pc = "done"
    /\ Len(prevCalls) = 2
    /\ Len(calls) = 2
=============================================================================
